---- MODULE Spec2Model ----
(***************************************************************************)
(* Model of crates/core/src/match_tree.rs: the pattern-vs-tree matcher.    *)
(* The matchers are pure functions of (pattern, candidate, environment);   *)
(* they are operators here, and the specifications draw their inputs from  *)
(* bounded sets of syntax trees and patterns and apply them.               *)
(***************************************************************************)
EXTENDS Integers, Sequences, FiniteSets, TLC

VARIABLES goal, cand, base, op, out

vars == <<goal, cand, base, op, out>>

(***************************************************************************)
(* Bounds of the model.                                                    *)
(***************************************************************************)
\* longest child list of the candidate root
MaxKids == 3
\* longest child list of the goal root
MaxGoals == 3

(***************************************************************************)
(* Syntax trees.  A tree is a record (kind, named, text, kids); a leaf     *)
(* carries its own text, an inner node's text is that of its children.    *)
(* A Node is a handle into a tree: the subtree, its start offset and its   *)
(* identity (the path from the root).                                      *)
(***************************************************************************)
Leaf(k, n, txt) == [kind |-> k, named |-> n, text |-> txt, kids |-> <<>>]

Inner(k, n, ks) == [kind |-> k, named |-> n, text |-> <<>>, kids |-> ks]

RECURSIVE TreeText(_)
TreeText(t) ==
  IF t.kids = <<>> THEN t.text
  ELSE LET F[i \in 0..Len(t.kids)] ==
             IF i = 0 THEN <<>> ELSE F[i - 1] \o TreeText(t.kids[i])
       IN F[Len(t.kids)]

Node(t, start, id) == [t |-> t, start |-> start, id |-> id]

Root(t) == Node(t, 0, <<>>)

node_id(n) == n.id

kind_id(n) == n.t.kind

is_named(n) == n.t.named

text(n) == TreeText(n.t)

range_end(n) == n.start + Len(TreeText(n.t))

children(n) ==
  LET Off[i \in 0..Len(n.t.kids)] ==
        IF i = 0 THEN n.start ELSE Off[i - 1] + Len(TreeText(n.t.kids[i]))
  IN [i \in 1..Len(n.t.kids) |-> Node(n.t.kids[i], Off[i - 1], Append(n.id, i))]

\* a named node without named children
is_named_leaf(n) ==
  is_named(n) /\ \A i \in 1..Len(n.t.kids) : ~n.t.kids[i].named

(***************************************************************************)
(* Patterns and meta variables.                                            *)
(***************************************************************************)
Capture(name, named) == [mv |-> "Capture", name |-> name, named |-> named]

Dropped(named) == [mv |-> "Dropped", name |-> "", named |-> named]

Multiple == [mv |-> "Multiple", name |-> "", named |-> FALSE]

MultiCapture(name) == [mv |-> "MultiCapture", name |-> name, named |-> FALSE]

MetaVar(m) == [tag |-> "MetaVar", meta_var |-> m]

Terminal(k, txt, n) == [tag |-> "Terminal", kind_id |-> k, text |-> txt, is_named |-> n]

Internal(k, ch) == [tag |-> "Internal", kind_id |-> k, children |-> ch]

\* Pattern::is_trivial: an unnamed terminal token
is_trivial(p) == p.tag = "Terminal" /\ ~p.is_named

(***************************************************************************)
(* does_node_match_exactly                                                 *)
(***************************************************************************)
RECURSIVE does_node_match_exactly(_, _)

\* does_node_match_exactly comparing texts only when both are named leaves
does_node_match_exactly_both_leaves(g, c) ==
  IF node_id(g) = node_id(c) THEN TRUE
  ELSE IF is_named_leaf(g) /\ is_named_leaf(c) THEN text(g) = text(c)
  ELSE IF kind_id(g) # kind_id(c) THEN FALSE
  ELSE LET gc == children(g)
           cc == children(c)
       IN IF Len(gc) # Len(cc) THEN FALSE
          ELSE \A i \in 1..Len(gc) : does_node_match_exactly(gc[i], cc[i])

does_node_match_exactly(g, c) ==
  IF node_id(g) = node_id(c) THEN TRUE
  ELSE IF is_named_leaf(g) \/ is_named_leaf(c) THEN text(g) = text(c)
  ELSE IF kind_id(g) # kind_id(c) THEN FALSE
  ELSE LET gc == children(g)
           cc == children(c)
       IN IF Len(gc) # Len(cc) THEN FALSE
          ELSE \A i \in 1..Len(gc) : does_node_match_exactly(gc[i], cc[i])

(***************************************************************************)
(* The binding environment (MetaVarEnv): single and multi bindings.        *)
(***************************************************************************)
EmptyMap == [x \in {} |-> 0]

EmptyEnv == [single |-> EmptyMap, multi |-> EmptyMap]

\* the result of an insertion: Some(env) or None (env as it was)
insert(env, name, node) ==
  IF name \in DOMAIN env.single /\ ~does_node_match_exactly(env.single[name], node)
  THEN [ok |-> FALSE, env |-> env]
  ELSE [ok |-> TRUE, env |-> [env EXCEPT !.single = (name :> node) @@ env.single]]

nodes_match_exactly(xs, ys) ==
  /\ Len(xs) = Len(ys)
  /\ \A i \in 1..Len(xs) : does_node_match_exactly(xs[i], ys[i])

insert_multi(env, name, nodes) ==
  IF name \in DOMAIN env.multi /\ ~nodes_match_exactly(env.multi[name], nodes)
  THEN [ok |-> FALSE, env |-> env]
  ELSE [ok |-> TRUE, env |-> [env EXCEPT !.multi = (name :> nodes) @@ env.multi]]

(***************************************************************************)
(* Results.  A match result is Some/None (ok), the environment as the      *)
(* call leaves it, and whether a fault was reached: "unwrap" (a panic, the *)
(* call is aborted) or "assert" (the debug assertion of the leaf matcher). *)
(* caps, pairs and runs record the committed alignment: the captures       *)
(* bound, the (goal child, candidate child) pairings of the outermost      *)
(* child list and the candidate runs its ellipses consumed.                *)
(***************************************************************************)
Some(env, caps) ==
  [ok |-> TRUE, fault |-> "none", env |-> env, caps |-> caps, pairs |-> <<>>, runs |-> <<>>]

None(env) ==
  [ok |-> FALSE, fault |-> "none", env |-> env, caps |-> <<>>, pairs |-> <<>>, runs |-> <<>>]

Panic(env) ==
  [ok |-> FALSE, fault |-> "unwrap", env |-> env, caps |-> <<>>, pairs |-> <<>>, runs |-> <<>>]

Pair(gi, ci) == [g |-> gi, c |-> ci]

\* the ellipsis at goal child g took candidates from..to-1; k trivial goal
\* tokens were skipped after it; next is the goal child that ended the run
\* (0 when the ellipsis ran to the end of the candidates); env is the
\* environment when the ellipsis was reached
Run(gi, from, to, k, next, name, env) ==
  [g |-> gi, from |-> from, to |-> to, k |-> k, next |-> next, name |-> name, env |-> env]

WithPair(p, caps, r) == [r EXCEPT !.pairs = <<p>> \o @, !.caps = caps \o @]

WithRun(run, r) == [r EXCEPT !.runs = <<run>> \o @]

(***************************************************************************)
(* match_leaf_meta_var                                                     *)
(***************************************************************************)
\* the record of a capture: the name, the candidate bound and the node the
\* name held before (<<>>: none)
Cap(env, name, candidate) ==
  [name |-> name, node |-> candidate,
   bound |-> IF name \in DOMAIN env.single THEN <<env.single[name]>> ELSE <<>>]

\* match_leaf_meta_var without the named-ness test
match_leaf_meta_var_no_gate(mv, candidate, env) ==
  CASE mv.mv \in {"Capture", "MultiCapture"} ->
         LET ins == insert(env, mv.name, candidate)
         IN IF ins.ok
            THEN Some(ins.env, <<Cap(env, mv.name, candidate)>>)
            ELSE None(env)
    [] mv.mv = "Dropped" -> Some(env, <<>>)
    [] mv.mv = "Multiple" -> [Some(env, <<>>) EXCEPT !.fault = "assert"]

\* match_leaf_meta_var taking a refused insertion for a match
match_leaf_meta_var_no_check(mv, candidate, env) ==
  CASE mv.mv = "Capture" ->
         IF mv.named /\ ~is_named(candidate) THEN None(env)
         ELSE Some(insert(env, mv.name, candidate).env, <<Cap(env, mv.name, candidate)>>)
    [] mv.mv = "Dropped" ->
         IF mv.named /\ ~is_named(candidate) THEN None(env) ELSE Some(env, <<>>)
    [] mv.mv = "Multiple" -> [Some(env, <<>>) EXCEPT !.fault = "assert"]
    [] mv.mv = "MultiCapture" ->
         Some(insert(env, mv.name, candidate).env, <<Cap(env, mv.name, candidate)>>)

match_leaf_meta_var(mv, candidate, env) ==
  CASE mv.mv = "Capture" ->
         IF mv.named /\ ~is_named(candidate) THEN None(env)
         ELSE LET ins == insert(env, mv.name, candidate)
              IN IF ins.ok
                 THEN Some(ins.env, <<Cap(env, mv.name, candidate)>>)
                 ELSE None(env)
    [] mv.mv = "Dropped" ->
         IF mv.named /\ ~is_named(candidate) THEN None(env) ELSE Some(env, <<>>)
    [] mv.mv = "Multiple" ->
         [Some(env, <<>>) EXCEPT !.fault = "assert"]
    [] mv.mv = "MultiCapture" ->
         LET ins == insert(env, mv.name, candidate)
         IN IF ins.ok
            THEN Some(ins.env, <<Cap(env, mv.name, candidate)>>)
            ELSE None(env)

\* Ok(None) is <<>>, Ok(Some(n)) is <<n>>
try_get_ellipsis_mode(node) ==
  IF node.tag # "MetaVar" THEN [is_ok |-> FALSE, name |-> <<>>]
  ELSE CASE node.meta_var.mv = "Multiple" -> [is_ok |-> TRUE, name |-> <<>>]
         [] node.meta_var.mv = "MultiCapture" ->
              [is_ok |-> TRUE, name |-> <<node.meta_var.name>>]
         [] OTHER -> [is_ok |-> FALSE, name |-> <<>>]

update_ellipsis_env(optional_name, matched, env, cand_children, skipped_anonymous) ==
  IF optional_name # <<>>
  THEN LET all == matched \o cand_children
           skipped == IF Len(all) >= skipped_anonymous
                      THEN Len(all) - skipped_anonymous ELSE 0
       IN insert_multi(env, optional_name[1], SubSeq(all, 1, skipped))
  ELSE [ok |-> TRUE, env |-> env]

\* the goal cursor after the trivial goal children from gi on
skip_trivial(goals, gi) ==
  CHOOSE j \in gi..(Len(goals) + 1) :
    /\ j = Len(goals) + 1 \/ ~is_trivial(goals[j])
    /\ \A i \in gi..(j - 1) : is_trivial(goals[i])

(***************************************************************************)
(* match_node_non_recursive and match_nodes_non_recursive.  gi and ci are  *)
(* the goal and candidate cursors (the next unconsumed child).             *)
(***************************************************************************)
RECURSIVE match_node_non_recursive(_, _, _)
RECURSIVE match_nodes_non_recursive(_, _, _)
RECURSIVE match_nodes_loop(_, _, _, _, _)
RECURSIVE match_nodes_ellipsis(_, _, _, _, _, _)
RECURSIVE match_nodes_scan(_, _, _, _, _, _, _, _, _)
RECURSIVE match_nodes_align(_, _, _, _, _)

match_node_non_recursive(g, candidate, env) ==
  IF g.tag = "Terminal" /\ g.kind_id = kind_id(candidate)
  THEN IF g.text = text(candidate) THEN Some(env, <<>>) ELSE None(env)
  ELSE IF g.tag = "MetaVar"
  THEN match_leaf_meta_var(g.meta_var, candidate, env)
  ELSE IF g.tag = "Internal" /\ g.kind_id = kind_id(candidate)
  THEN match_nodes_non_recursive(g.children, children(candidate), env)
  ELSE None(env)

match_nodes_non_recursive(goals, candidates, env) ==
  IF Len(candidates) = 0 THEN None(env)
  ELSE match_nodes_loop(goals, candidates, 1, 1, env)

\* the head of the outer loop: peek the goal cursor
match_nodes_loop(goals, cands, gi, ci, env) ==
  IF gi > Len(goals) THEN Panic(env)
  ELSE LET mode == try_get_ellipsis_mode(goals[gi])
       IN IF mode.is_ok
          THEN match_nodes_ellipsis(goals, cands, gi, ci, env, mode.name)
          ELSE match_nodes_align(goals, cands, gi, ci, env)

\* the current goal child is an ellipsis
match_nodes_ellipsis(goals, cands, gi, ci, env, optional_name) ==
  LET gj == skip_trivial(goals, gi + 1)
      skipped_anonymous == gj - (gi + 1)
  IN IF gj > Len(goals)
     THEN LET u == update_ellipsis_env(optional_name, <<>>, env,
                                       SubSeq(cands, ci, Len(cands)), skipped_anonymous)
          IN IF u.ok
             THEN WithRun(Run(gi, ci, Len(cands) + 1, skipped_anonymous, 0, optional_name, env),
                          Some(u.env, <<>>))
             ELSE None(env)
     ELSE IF try_get_ellipsis_mode(goals[gj]).is_ok
     THEN IF ci + 1 > Len(cands) THEN None(env)
          ELSE LET u == update_ellipsis_env(optional_name, <<cands[ci]>>, env, <<>>,
                                            skipped_anonymous)
               IN IF u.ok
                  THEN WithRun(Run(gi, ci, ci + 1, skipped_anonymous, gj, optional_name, env),
                               match_nodes_loop(goals, cands, gj, ci + 1, u.env))
                  ELSE None(env)
     ELSE match_nodes_scan(goals, cands, gi, gj, ci, ci, env, optional_name, env)

\* the scan for the first candidate that matches the goal child after the
\* ellipsis; cands[from..cj-1] is the provisional capture list and env0 the
\* environment when the scan began
match_nodes_scan(goals, cands, gi, gj, from, cj, env, optional_name, env0) ==
  LET r == match_node_non_recursive(goals[gj], cands[cj], env)
  IN IF r.fault = "unwrap" THEN Panic(r.env)
     ELSE IF r.ok
     THEN LET u == update_ellipsis_env(optional_name, SubSeq(cands, from, cj - 1),
                                       r.env, <<>>, gj - (gi + 1))
          IN IF u.ok
             THEN WithRun(Run(gi, from, cj, gj - (gi + 1), gj, optional_name, env0),
                          match_nodes_align(goals, cands, gj, cj, u.env))
             ELSE None(r.env)
     ELSE IF cj + 1 > Len(cands) THEN None(r.env)
     ELSE match_nodes_scan(goals, cands, gi, gj, from, cj + 1, r.env, optional_name, env0)

\* match_nodes_align, skipping a named candidate that does not match as well
match_nodes_align_skip_named(goals, cands, gi, ci, env) ==
  IF ci > Len(cands) THEN None(env)
  ELSE LET r == match_node_non_recursive(goals[gi], cands[ci], env)
       IN IF r.fault = "unwrap" THEN Panic(r.env)
          ELSE IF r.ok
          THEN IF gi + 1 > Len(goals)
               THEN WithPair(Pair(gi, ci), r.caps, Some(r.env, <<>>))
               ELSE IF ci + 1 > Len(cands) THEN None(r.env)
               ELSE WithPair(Pair(gi, ci), r.caps,
                             match_nodes_loop(goals, cands, gi + 1, ci + 1, r.env))
          ELSE match_nodes_align(goals, cands, gi, ci + 1, r.env)

\* the alignment of a goal child that is no ellipsis, and the loop's tail
match_nodes_align(goals, cands, gi, ci, env) ==
  IF ci > Len(cands) THEN None(env)
  ELSE LET r == match_node_non_recursive(goals[gi], cands[ci], env)
       IN IF r.fault = "unwrap" THEN Panic(r.env)
          ELSE IF r.ok
          THEN IF gi + 1 > Len(goals)
               THEN WithPair(Pair(gi, ci), r.caps, Some(r.env, <<>>))
               ELSE IF ci + 1 > Len(cands) THEN None(r.env)
               ELSE WithPair(Pair(gi, ci), r.caps,
                             match_nodes_loop(goals, cands, gi + 1, ci + 1, r.env))
          ELSE IF ~is_named(cands[ci])
          THEN match_nodes_align(goals, cands, gi, ci + 1, r.env)
          ELSE None(r.env)

(***************************************************************************)
(* match_end_non_recursive and match_multi_nodes_end_non_recursive.  The   *)
(* result is Some(end)/None; pairs and runs record the alignment as above. *)
(***************************************************************************)
SomeEnd(e) == [ok |-> TRUE, fault |-> "none", end |-> e, pairs |-> <<>>, runs |-> <<>>]

NoneEnd == [ok |-> FALSE, fault |-> "none", end |-> 0, pairs |-> <<>>, runs |-> <<>>]

PanicEnd == [ok |-> FALSE, fault |-> "unwrap", end |-> 0, pairs |-> <<>>, runs |-> <<>>]

WithEndPair(p, r) == [r EXCEPT !.pairs = <<p>> \o @]

RECURSIVE match_end_non_recursive(_, _)
RECURSIVE match_multi_nodes_end_non_recursive(_, _)
RECURSIVE match_end_loop(_, _, _, _, _)
RECURSIVE match_end_ellipsis(_, _, _, _, _)
RECURSIVE match_end_scan(_, _, _, _, _, _)
RECURSIVE match_end_align(_, _, _, _)

match_end_non_recursive(g, candidate) ==
  IF g.tag = "MetaVar" THEN SomeEnd(range_end(candidate))
  ELSE IF g.tag = "Internal" /\ g.kind_id = kind_id(candidate)
  THEN match_multi_nodes_end_non_recursive(g.children, children(candidate))
  ELSE IF g.tag = "Terminal" /\ g.kind_id = kind_id(candidate)
  THEN IF g.text = text(candidate) THEN SomeEnd(range_end(candidate)) ELSE NoneEnd
  ELSE NoneEnd

match_multi_nodes_end_non_recursive(goals, candidates) ==
  IF Len(candidates) = 0 THEN NoneEnd
  ELSE match_end_loop(goals, candidates, 1, 1, range_end(candidates[1]))

match_end_loop(goals, cands, gi, ci, end) ==
  IF gi > Len(goals) THEN PanicEnd
  ELSE IF try_get_ellipsis_mode(goals[gi]).is_ok
  THEN match_end_ellipsis(goals, cands, gi, ci, end)
  ELSE match_end_align(goals, cands, gi, ci)

match_end_ellipsis(goals, cands, gi, ci, end) ==
  LET gj == skip_trivial(goals, gi + 1)
  IN IF gj > Len(goals)
     THEN LET updated_end == IF ci <= Len(cands) THEN range_end(cands[Len(cands)]) ELSE end
          IN WithRun(Run(gi, ci, Len(cands) + 1, gj - (gi + 1), 0, <<>>, EmptyEnv),
                     SomeEnd(updated_end))
     ELSE IF try_get_ellipsis_mode(goals[gj]).is_ok
     THEN IF ci + 1 > Len(cands) THEN NoneEnd
          ELSE WithRun(Run(gi, ci, ci + 1, gj - (gi + 1), gj, <<>>, EmptyEnv),
                       match_end_loop(goals, cands, gj, ci + 1, end))
     ELSE match_end_scan(goals, cands, gi, gj, ci, ci)

match_end_scan(goals, cands, gi, gj, from, cj) ==
  LET r == match_end_non_recursive(goals[gj], cands[cj])
  IN IF r.fault = "unwrap" THEN PanicEnd
     ELSE IF r.ok
     THEN WithRun(Run(gi, from, cj, gj - (gi + 1), gj, <<>>, EmptyEnv),
                  match_end_align(goals, cands, gj, cj))
     ELSE IF cj + 1 > Len(cands) THEN NoneEnd
     ELSE match_end_scan(goals, cands, gi, gj, from, cj + 1)

\* match_end_align, returning the end of the whole candidate list once the
\* goals are exhausted
match_end_align_to_last(goals, cands, gi, ci) ==
  IF ci > Len(cands) THEN NoneEnd
  ELSE LET r == match_end_non_recursive(goals[gi], cands[ci])
       IN IF r.fault = "unwrap" THEN PanicEnd
          ELSE IF r.ok
          THEN IF gi + 1 > Len(goals)
               THEN WithEndPair(Pair(gi, ci), SomeEnd(range_end(cands[Len(cands)])))
               ELSE IF ci + 1 > Len(cands) THEN NoneEnd
               ELSE WithEndPair(Pair(gi, ci),
                                match_end_loop(goals, cands, gi + 1, ci + 1, r.end))
          ELSE IF ~is_named(cands[ci])
          THEN match_end_align(goals, cands, gi, ci + 1)
          ELSE NoneEnd

match_end_align(goals, cands, gi, ci) ==
  IF ci > Len(cands) THEN NoneEnd
  ELSE LET r == match_end_non_recursive(goals[gi], cands[ci])
       IN IF r.fault = "unwrap" THEN PanicEnd
          ELSE IF r.ok
          THEN IF gi + 1 > Len(goals)
               THEN WithEndPair(Pair(gi, ci), SomeEnd(r.end))
               ELSE IF ci + 1 > Len(cands) THEN NoneEnd
               ELSE WithEndPair(Pair(gi, ci),
                                match_end_loop(goals, cands, gi + 1, ci + 1, r.end))
          ELSE IF ~is_named(cands[ci])
          THEN match_end_align(goals, cands, gi, ci + 1)
          ELSE NoneEnd

(***************************************************************************)
(* The inputs: candidate trees and patterns of a small language of calls,  *)
(* identifiers and commas.                                                 *)
(***************************************************************************)
SeqsUpTo(S, n) == UNION {[1..k -> S] : k \in 0..n}

IdA == Leaf("id", TRUE, <<"a">>)

IdB == Leaf("id", TRUE, <<"b">>)

Comma == Leaf(",", FALSE, <<",">>)

Idents == {IdA, IdB}

\* the children a candidate root may have: tokens and nested calls
CandKids ==
  Idents \cup {Comma}
    \cup {Inner("call", TRUE, ks) : ks \in {<<IdA, IdA>>, <<IdA, IdB>>, <<IdB, IdB>>}}

Candidates == {Inner("call", TRUE, ks) : ks \in SeqsUpTo(CandKids, MaxKids)}

TermA == Terminal("id", <<"a">>, TRUE)

TermB == Terminal("id", <<"b">>, TRUE)

TermComma == Terminal(",", <<",">>, FALSE)

CapA == MetaVar(Capture("A", TRUE))

\* the children a goal root may have
GoalKids ==
  {TermA, TermComma, CapA, MetaVar(Multiple), MetaVar(MultiCapture("M")),
   Internal("call", <<CapA, TermB>>)}

Goals == GoalKids \cup {Internal("call", gs) : gs \in SeqsUpTo(GoalKids, MaxGoals)}

NoOut == [ok |-> FALSE, fault |-> "none"]

Init ==
  /\ goal \in Goals
  /\ cand \in {Root(t) : t \in Candidates}
  /\ base = EmptyEnv
  /\ op = "init"
  /\ out = NoOut

Match ==
  /\ op = "init"
  /\ op' = "match"
  /\ out' = match_node_non_recursive(goal, cand, base)
  /\ UNCHANGED <<goal, cand, base>>

MatchEnd ==
  /\ op = "init"
  /\ op' = "end"
  /\ out' = match_end_non_recursive(goal, cand)
  /\ UNCHANGED <<goal, cand, base>>

Next == Match \/ MatchEnd

Spec == Init /\ [][Next]_vars

(***************************************************************************)
(* Vocabulary of the properties.                                           *)
(***************************************************************************)
IsEllipsis(p) == try_get_ellipsis_mode(p).is_ok

\* the call matched a child list: an Internal goal at a node of its kind
SeqCall == goal.tag = "Internal" /\ goal.kind_id = kind_id(cand)

Range(f) == {f[i] : i \in DOMAIN f}

Max(S) == IF S = {} THEN 0 ELSE CHOOSE x \in S : \A y \in S : y <= x

\* the last candidate child an alignment consumed (0: none)
LastConsumed(pairs, runs) ==
  Max({p.c : p \in Range(pairs)} \cup {r.to - 1 : r \in Range(runs)})

\* the capture names of a pattern, with repetitions
RECURSIVE PatternNames(_)
PatternNames(p) ==
  IF p.tag = "MetaVar"
  THEN IF p.meta_var.mv \in {"Capture", "MultiCapture"} THEN <<p.meta_var.name>> ELSE <<>>
  ELSE IF p.tag = "Internal"
  THEN LET F[i \in 0..Len(p.children)] ==
             IF i = 0 THEN <<>> ELSE F[i - 1] \o PatternNames(p.children[i])
       IN F[Len(p.children)]
  ELSE <<>>

NoRepeatedName(p) ==
  \A i, j \in 1..Len(PatternNames(p)) : i # j => PatternNames(p)[i] # PatternNames(p)[j]

\* an unnamed ellipsis occurs only as a child of an Internal node
EllipsisInSequenceOnly(p) == ~(p.tag = "MetaVar" /\ p.meta_var.mv = "Multiple")

Alignment(runs) ==
  [i \in 1..Len(runs) |->
     [g |-> runs[i].g, from |-> runs[i].from, to |-> runs[i].to, next |-> runs[i].next]]

(***************************************************************************)
(* C1: a call of match_node_non_recursive that returns no match leaves the *)
(* environment as it was on entry, and after a match the environment holds *)
(* the base bindings plus those of the committed pairings only.            *)
(***************************************************************************)
C1_FailedMatchLeavesEnv ==
  (op = "match" /\ out.fault = "none") =>
    /\ ~out.ok => out.env = base
    /\ out.ok =>
         /\ DOMAIN out.env.single =
              DOMAIN base.single \cup {c.name : c \in Range(out.caps)}
         /\ \A c \in Range(out.caps) :
              out.env.single[c.name] \in {d.node : d \in {e \in Range(out.caps) : e.name = c.name}}
         /\ DOMAIN out.env.multi =
              DOMAIN base.multi \cup {r.name[1] : r \in {q \in Range(out.runs) : q.name # <<>>}}

(***************************************************************************)
(* C8: for a pattern whose unnamed ellipses are children of Internal nodes *)
(* both matchers end with a result or no match and never reach a fault.    *)
(***************************************************************************)
C8_NoFault ==
  (op \in {"match", "end"} /\ EllipsisInSequenceOnly(goal)) => out.fault = "none"

(***************************************************************************)
(* C4: a goal list whose last child is an ellipsis and whose preceding     *)
(* children have all been matched succeeds; the ellipsis takes all the     *)
(* remaining candidates (zero included) and, when named, binds them.       *)
(***************************************************************************)
C4_TrailingEllipsis ==
  LET gs == goal.children
      cs == children(cand)
      n == Len(gs)
      last == out.runs[Len(out.runs)]
  IN (/\ op = "match"
      /\ SeqCall
      /\ n >= 1
      /\ IsEllipsis(gs[n])
      /\ n = 1 \/ match_nodes_non_recursive(SubSeq(gs, 1, n - 1), cs, base).ok)
     => /\ out.ok
        /\ Len(out.runs) >= 1
        /\ last.g = n /\ last.to = Len(cs) + 1
        /\ last.from = LastConsumed(out.pairs, SubSeq(out.runs, 1, Len(out.runs) - 1)) + 1
        /\ last.name # <<>> =>
             out.env.multi[last.name[1]] = SubSeq(cs, last.from, Len(cs))

(***************************************************************************)
(* C10: for a pattern without a repeated capture name the end-offset       *)
(* matcher returns an offset exactly when the capturing matcher, started   *)
(* with an empty environment, matches, and then both align alike.          *)
(***************************************************************************)
C10_EndFollowsMatch ==
  (op = "end" /\ NoRepeatedName(goal)) =>
    LET m == match_node_non_recursive(goal, cand, EmptyEnv)
    IN /\ out.ok = m.ok
       /\ out.ok => out.pairs = m.pairs /\ Alignment(out.runs) = Alignment(m.runs)

(***************************************************************************)
(* C3: an ellipsis followed (after trivial goal tokens) by a goal child G  *)
(* that is no ellipsis consumes exactly the candidates before the first    *)
(* candidate that matches G, and a named one binds that run without its    *)
(* last k elements, k the number of trivial goal tokens skipped.           *)
(***************************************************************************)
LazyRuns == {r \in Range(out.runs) : r.next # 0 /\ ~IsEllipsis(goal.children[r.next])}

C3_RunEndsAtMatch ==
  (op = "match" /\ SeqCall /\ out.ok) =>
    \A r \in LazyRuns :
      match_node_non_recursive(goal.children[r.next], children(cand)[r.to], r.env).ok

C3_RunIsShortest ==
  (op = "match" /\ SeqCall /\ out.ok) =>
    \A r \in LazyRuns : \A j \in r.from..(r.to - 1) :
      ~match_node_non_recursive(goal.children[r.next], children(cand)[j], r.env).ok

C3_RunIsBound ==
  (op = "match" /\ SeqCall /\ out.ok) =>
    \A r \in LazyRuns :
      r.name # <<>> =>
        LET len == r.to - r.from
            keep == IF len >= r.k THEN len - r.k ELSE 0
        IN nodes_match_exactly(out.env.multi[r.name[1]],
                               SubSeq(children(cand), r.from, r.from + keep - 1))

C3_LazyEllipsis == C3_RunEndsAtMatch /\ C3_RunIsShortest /\ C3_RunIsBound

(***************************************************************************)
(* C5: aligning a goal child that is no ellipsis skips unnamed candidates  *)
(* only; a named candidate that does not match fails the sequence.  On a   *)
(* match every goal child that is no ellipsis (the trivial tokens skipped  *)
(* after an ellipsis apart) has its own candidate, pairings go in strictly *)
(* increasing order, every candidate passed over outside an ellipsis run   *)
(* is unnamed, and candidates left after the last goal child do not matter.*)
(***************************************************************************)
\* the trivial goal tokens skipped after an ellipsis
SkippedGoals ==
  {i \in 1..Len(goal.children) :
     \E r \in Range(out.runs) :
       r.g < i /\ i < (IF r.next = 0 THEN Len(goal.children) + 1 ELSE r.next)}

PairedGoals ==
  {i \in 1..Len(goal.children) : ~IsEllipsis(goal.children[i])} \ SkippedGoals

\* the candidates an alignment passed over outside its ellipsis runs
PassedOver ==
  {j \in 1..LastConsumed(out.pairs, out.runs) :
     /\ \A p \in Range(out.pairs) : p.c # j
     /\ \A r \in Range(out.runs) : j < r.from \/ j >= r.to}

\* the node n without its children after the k-th
WithKidsUpTo(n, k) == Node(Inner(n.t.kind, n.t.named, SubSeq(n.t.kids, 1, k)), n.start, n.id)

C5_TriviaSkip ==
  (op = "match" /\ SeqCall /\ out.fault = "none") =>
    LET gs == goal.children
        cs == children(cand)
    IN /\ out.ok =>
            /\ {p.g : p \in Range(out.pairs)} = PairedGoals
            /\ \A i, j \in 1..Len(out.pairs) :
                 i < j => out.pairs[i].g < out.pairs[j].g /\ out.pairs[i].c < out.pairs[j].c
            /\ \A j \in PassedOver : ~is_named(cs[j])
            /\ Len(gs) \in {p.g : p \in Range(out.pairs)} =>
                 LET less == match_node_non_recursive(
                               goal, WithKidsUpTo(cand, LastConsumed(out.pairs, out.runs)), base)
                 IN less.ok /\ less.pairs = out.pairs /\ less.env = out.env
       /\ (/\ Len(gs) >= 1 /\ Len(cs) >= 1
           /\ ~IsEllipsis(gs[1])
           /\ is_named(cs[1])
           /\ ~match_node_non_recursive(gs[1], cs[1], base).ok) => ~out.ok

\* a match that skipped an unnamed candidate and left candidates unconsumed
C5_Witness ==
  /\ op = "match" /\ SeqCall /\ out.ok
  /\ PassedOver # {}
  /\ LastConsumed(out.pairs, out.runs) < Len(children(cand))

(***************************************************************************)
(* C6: an offset match_end_non_recursive returns is at most the            *)
(* candidate's range end and is the range end of the innermost candidate   *)
(* node the final goal child consumed: the candidate's own end for a       *)
(* Terminal or MetaVar goal, the end computed for the last matched child   *)
(* for an Internal goal, the end of the last candidate child for a         *)
(* trailing ellipsis.                                                      *)
(***************************************************************************)
TrailingRun == Len(out.runs) >= 1 /\ out.runs[Len(out.runs)].next = 0

C6_EndOffset ==
  (op = "end" /\ out.ok) =>
    /\ out.end <= range_end(cand)
    /\ goal.tag \in {"Terminal", "MetaVar"} => out.end = range_end(cand)
    /\ goal.tag = "Internal" =>
         LET gs == goal.children
             cs == children(cand)
             p == out.pairs[Len(out.pairs)]
         IN IF TrailingRun THEN out.end = range_end(cs[Len(cs)])
            ELSE /\ Len(out.pairs) >= 1
                 /\ p.g = Len(gs)
                 /\ match_end_non_recursive(gs[p.g], cs[p.c]).ok
                 /\ out.end = match_end_non_recursive(gs[p.g], cs[p.c]).end
                 /\ out.end <= range_end(cs[p.c])

\* an offset that leaves out candidates after the last pairing
C6_Witness ==
  /\ op = "end" /\ out.ok /\ goal.tag = "Internal"
  /\ ~TrailingRun
  /\ out.pairs[Len(out.pairs)].c < Len(children(cand))
  /\ out.end < range_end(cand)

(***************************************************************************)
(* SpecCapture: the leaf matcher under environments that already bind the  *)
(* name, and child lists with repeated captures.  The candidates include   *)
(* two wrappers of an identifier: nodes of different kinds with the text   *)
(* of their only child (as a parameter or a statement wraps an identifier).*)
(***************************************************************************)
WrapKids == Idents \cup {Comma, Inner("stmt", TRUE, <<IdA>>), Inner("param", TRUE, <<IdA>>)}

WrapCandidates == {Inner("call", TRUE, ks) : ks \in SeqsUpTo(WrapKids, MaxKids)}

LeafGoals ==
  {MetaVar(Capture(n, b)) : n \in {"A", "B"}, b \in BOOLEAN}
    \cup {MetaVar(Dropped(b)) : b \in BOOLEAN}

CapAny == MetaVar(Capture("A", FALSE))

CaptureGoals ==
  {Internal("call", gs) : gs \in SeqsUpTo({CapA, CapAny, TermA, MetaVar(Multiple)}, MaxGoals)}

InitCapture ==
  /\ op = "init"
  /\ out = NoOut
  /\ \E t \in WrapCandidates :
       \/ /\ goal \in LeafGoals
          /\ cand \in Range(children(Root(t)))
          /\ base \in {EmptyEnv} \cup
               {[EmptyEnv EXCEPT !.single = ("A" :> n)] : n \in Range(children(Root(t)))}
       \/ /\ goal \in CaptureGoals
          /\ cand = Root(t)
          /\ base = EmptyEnv

SpecCapture == InitCapture /\ [][Next]_vars

(***************************************************************************)
(* C7: a Capture or Dropped goal with must_be_named fails on an unnamed    *)
(* candidate; otherwise Dropped succeeds and leaves the environment alone, *)
(* and Capture succeeds exactly when the insertion does.  So 'return $A'   *)
(* does not match 'return;' and 'return $$A' does.                         *)
(***************************************************************************)
LeafCall == op = "match" /\ goal.tag = "MetaVar"

C7_NamedGate ==
  /\ (LeafCall /\ goal.meta_var.mv \in {"Capture", "Dropped"}) =>
       LET mv == goal.meta_var
           ins == insert(base, mv.name, cand)
       IN IF mv.named /\ ~is_named(cand) THEN ~out.ok /\ out.env = base
          ELSE IF mv.mv = "Dropped" THEN out.ok /\ out.env = base
          ELSE /\ out.ok = ins.ok
               /\ out.ok => out.env = ins.env /\ out.env.single[mv.name] = cand
  /\ (/\ op = "match"
      /\ goal \in {Internal("call", <<TermA, CapA>>), Internal("call", <<TermA, CapAny>>)}
      /\ cand.t.kids = <<IdA, Comma>>)
     => out.ok = (goal.children[2] = CapAny)

\* a capture that must be named refused an unnamed candidate it could bind
C7_Witness ==
  /\ LeafCall /\ goal.meta_var.mv = "Capture"
  /\ goal.meta_var.named /\ ~is_named(cand)
  /\ goal.meta_var.name \notin DOMAIN base.single
  /\ ~out.ok

(***************************************************************************)
(* C2 as stated: a Capture goal at a candidate binds an unbound name and   *)
(* matches; a bound name matches only a candidate exactly-equal to the     *)
(* stored node, and otherwise the match of the enclosing pattern fails.    *)
(* So in the environment of a match all candidates paired with the         *)
(* occurrences of a name are exactly-equal to the node bound under it.     *)
(***************************************************************************)
GatePasses(mv, n) == ~(mv.named /\ ~is_named(n))

C2_LeafRule ==
  (LeafCall /\ goal.meta_var.mv = "Capture" /\ GatePasses(goal.meta_var, cand)) =>
    LET name == goal.meta_var.name
    IN IF name \notin DOMAIN base.single
       THEN out.ok /\ out.env = [base EXCEPT !.single = (name :> cand) @@ base.single]
       ELSE /\ out.ok = does_node_match_exactly(base.single[name], cand)
            /\ ~out.ok => out.env = base

\* a candidate the scan after an ellipsis tried against a Capture goal and
\* that the stored node refused
RefusedInScan ==
  {r \in LazyRuns :
     LET g == goal.children[r.next]
     IN /\ g.tag = "MetaVar" /\ g.meta_var.mv = "Capture"
        /\ \E j \in r.from..(r.to - 1) :
             /\ GatePasses(g.meta_var, children(cand)[j])
             /\ g.meta_var.name \in DOMAIN r.env.single
             /\ ~does_node_match_exactly(r.env.single[g.meta_var.name], children(cand)[j])}

C2_RefusalFailsPattern ==
  (op = "match" /\ SeqCall /\ out.ok) => RefusedInScan = {}

C2_AllEqualToBound ==
  (op = "match" /\ out.ok /\ out.fault = "none") =>
    \A c \in Range(out.caps) : does_node_match_exactly(out.env.single[c.name], c.node)

C2_NonLinear == C2_LeafRule /\ C2_RefusalFailsPattern /\ C2_AllEqualToBound

(***************************************************************************)
(* C2 as amended: a refused candidate fails the match of that goal at that *)
(* candidate only; in the environment of a match a name is bound to the    *)
(* candidate of its last occurrence, and every paired candidate was        *)
(* exactly-equal to the node the name held when it was paired.             *)
(***************************************************************************)
LastCap(name) ==
  LET idx == {i \in 1..Len(out.caps) : out.caps[i].name = name}
  IN out.caps[Max(idx)]

C2_NonLinearAmended ==
  /\ C2_LeafRule
  /\ (op = "match" /\ out.ok /\ out.fault = "none") =>
       \A c \in Range(out.caps) :
         /\ out.env.single[c.name] = LastCap(c.name).node
         /\ c.bound # <<>> => does_node_match_exactly(c.bound[1], c.node)

\* a match that paired a name twice, the second time with another node
C2_Witness ==
  /\ op = "match" /\ SeqCall /\ out.ok
  /\ \E i, j \in 1..Len(out.caps) :
       /\ i < j
       /\ out.caps[i].name = out.caps[j].name
       /\ out.caps[i].node # out.caps[j].node
       /\ out.caps[j].bound = <<out.caps[i].node>>

(***************************************************************************)
(* SpecExact: does_node_match_exactly on two nodes of one tree.            *)
(***************************************************************************)
\* most children of a node compared
MaxExactKids == 2

ExactLeaves ==
  Idents \cup {Comma, Leaf("num", TRUE, <<"a">>), Leaf("id", TRUE, <<"a", "b">>)}

ExactInner ==
  {Inner(k, n, ks) : k \in {"call", "list"}, n \in BOOLEAN,
                     ks \in SeqsUpTo(ExactLeaves, MaxExactKids) \ {<<>>}}

ExactTrees ==
  ExactLeaves \cup ExactInner
    \cup {Inner("call", TRUE, <<x>>) : x \in {y \in ExactInner : y.named /\ y.kind = "call"}}

InitExact ==
  /\ op = "init"
  /\ out = NoOut
  /\ base = EmptyEnv
  /\ goal \in {Node(t, 0, <<1>>) : t \in ExactTrees}
  /\ cand \in {goal} \cup {Node(t, range_end(goal), <<2>>) : t \in ExactTrees}

Exact ==
  /\ op = "init"
  /\ op' = "exact"
  /\ out' = [ok |-> does_node_match_exactly(goal, cand), fault |-> "none"]
  /\ UNCHANGED <<goal, cand, base>>

NextExact == Exact

SpecExact == InitExact /\ [][NextExact]_vars

(***************************************************************************)
(* C9: does_node_match_exactly(a, b) holds iff a and b are the same node,  *)
(* or one of them is a named leaf and their texts are equal, or neither is *)
(* a named leaf and they have the same kind and as many children, exactly- *)
(* equal pairwise in order.                                                *)
(***************************************************************************)
RECURSIVE ExactlyEqual(_, _)
ExactlyEqual(a, b) ==
  \/ node_id(a) = node_id(b)
  \/ /\ is_named_leaf(a) \/ is_named_leaf(b)
     /\ text(a) = text(b)
  \/ /\ ~is_named_leaf(a) /\ ~is_named_leaf(b)
     /\ kind_id(a) = kind_id(b)
     /\ Len(children(a)) = Len(children(b))
     /\ \A i \in 1..Len(children(a)) : ExactlyEqual(children(a)[i], children(b)[i])

C9_ExactEquality == op = "exact" => out.ok = ExactlyEqual(goal, cand)

\* a named leaf and a node of another kind with children, of the same text
C9_Witness ==
  /\ op = "exact" /\ out.ok
  /\ node_id(goal) # node_id(cand)
  /\ is_named_leaf(goal) /\ Len(children(goal)) = 0
  /\ kind_id(goal) # kind_id(cand)
  /\ Len(children(cand)) > 0

====
